---- MODULE Spec2Model ----
(***************************************************************************)
(* Command queue between the web dashboard (producer) and the desktop      *)
(* clients (consumers), over the four tables of the control-panel schema   *)
(* and their row-level-security policies.                                  *)
(*                                                                         *)
(* Store semantics used throughout (PostgreSQL row level security):        *)
(*   - INSERT: the new row must satisfy the WITH CHECK of at least one     *)
(*     INSERT policy, otherwise the statement fails with an error;         *)
(*   - UPDATE / DELETE: the rows that fail every USING clause are simply   *)
(*     not seen by the statement: it affects no row and returns no error;  *)
(*   - the desktop client connects with the service-role key, which        *)
(*     bypasses the policies.                                              *)
(***************************************************************************)
EXTENDS Integers, Sequences, FiniteSets, TLC

\* ---------------------------------------------------------------- bounds
MaxDevices == 2
MaxCommands == 2
MaxTeams == 1
MaxCycles == 2
MaxClock == 2
MaxCalls == 2

\* ------------------------------------------------------------- constants
\* SQL NULL in a nullable column (team_id, last_seen, executed_at); ids and
\* timestamps are all >= 1.
NULL == 0

Users == {"u1", "u2"}
\* useAuth() gives user = null when nobody is signed in.
NoUser == "null"
Sessions == Users \cup {NoUser}

CommandTypes == {"unmute_zoom", "next_track"}
CommandStatuses == {"pending", "delivered", "executed", "failed"}
DeviceStatuses == {"online", "offline", "unknown"}
Roles == {"admin", "member"}

\* DEVICE_ID of the desktop client: the first registered device.
DEVICE_ID == 1

Cycles == 1..MaxCycles

VARIABLES
    teams,          \* table teams: id -> [created_by]
    team_members,   \* table team_members: set of [team_id, user_id, role]
    devices,        \* table devices: id -> [name, ip_address, port, owner_id,
                    \*   team_id, status, last_seen]
    commands,       \* table commands: id -> row
    teamSeq,        \* number of team ids generated so far (gen_random_uuid)
    deviceSeq,      \* number of device ids generated so far
    commandSeq,     \* number of command ids generated so far
    now,            \* the store's clock, now()
    cycle,          \* the running invocations of pollCommands
    execCount,      \* per command id and executor: the calls made so far
    ui              \* the outcome the dashboard showed for the last operation

vars == <<teams, team_members, devices, commands, teamSeq, deviceSeq,
          commandSeq, now, cycle, execCount, ui>>

dbVars == <<teams, team_members, devices, commands, teamSeq, deviceSeq,
            commandSeq>>

\* ------------------------------------------------------------ helpers
\* f with the keys in K removed.
Without(f, K) == [x \in (DOMAIN f) \ K |-> f[x]]

\* f extended with key k bound to v.
With(f, k, v) == [x \in (DOMAIN f) \cup {k} |-> IF x = k THEN v ELSE f[x]]

IdleCycle == [pc |-> "idle", queue |-> <<>>]

\* What a handler shows when it ends: the failure alert of operation op
\* ("Failed to ..."), or nothing to report.
Report(op, error) ==
    IF error = "none" THEN [op |-> "none", error |-> "none"]
    ELSE [op |-> op, error |-> error]

\* ------------------------------------------------------------ device form
\* A text field is a sequence of characters; the form of AddDeviceModal and
\* EditDeviceModal is [name, ip_address, port], name and ip_address kept as
\* whole strings ("" when left empty).
Digit ==
    ("0" :> 0) @@ ("1" :> 1) @@ ("2" :> 2) @@ ("3" :> 3) @@ ("4" :> 4) @@
    ("5" :> 5) @@ ("6" :> 6) @@ ("7" :> 7) @@ ("8" :> 8) @@ ("9" :> 9)

IsDigit(ch) == ch \in DOMAIN Digit

\* parseInt of a text without digits at its start
NaN == -1

\* the first position at or after i that holds no digit
DigitsEnd(s, i) ==
    CHOOSE j \in i..(Len(s) + 1) :
        /\ \A n \in i..(j - 1) : IsDigit(s[n])
        /\ j = Len(s) + 1 \/ ~IsDigit(s[j])

RECURSIVE Decimal(_, _, _)
\* the number written by the digits s[i], ..., s[j - 1]
Decimal(s, i, j) ==
    IF j <= i THEN 0 ELSE 10 * Decimal(s, i, j - 1) + Digit[s[j - 1]]

RECURSIVE Pow10(_)
Pow10(n) == IF n <= 0 THEN 1 ELSE 10 * Pow10(n - 1)

\* JavaScript parseInt(text) on an unsigned text: the leading digits, read in
\* base 10, whatever follows them; NaN when there is no leading digit
parseInt(s) ==
    LET j == DigitsEnd(s, 1)
    IN IF j = 1 THEN NaN ELSE Decimal(s, 1, j)

\* <input type="number">: the text read as a floating-point number,
\* digits [ "." digits ] [ "e" [ "-" ] digits ], given as mant * 10^scale
NumberValue(s) ==
    LET i1 == DigitsEnd(s, 1)
        hasFrac == i1 <= Len(s) /\ s[i1] = "."
        f0 == IF hasFrac THEN i1 + 1 ELSE i1
        f1 == IF hasFrac THEN DigitsEnd(s, f0) ELSE i1
        hasExp == f1 <= Len(s) /\ s[f1] = "e"
        neg == hasExp /\ f1 + 1 <= Len(s) /\ s[f1 + 1] = "-"
        e0 == IF hasExp THEN (IF neg THEN f1 + 2 ELSE f1 + 1) ELSE f1
        e1 == IF hasExp THEN DigitsEnd(s, e0) ELSE f1
        exp == IF neg THEN 0 - Decimal(s, e0, e1) ELSE Decimal(s, e0, e1)
    IN [ok |-> /\ i1 > 1
               /\ hasFrac => f1 > f0
               /\ hasExp => e1 > e0
               /\ e1 = Len(s) + 1,
        mant |-> Decimal(s, 1, i1) * Pow10(f1 - f0) + Decimal(s, f0, f1),
        scale |-> exp - (f1 - f0)]

\* the port field: type="number" min="1" max="65535" required (step 1)
PortFieldValid(s) ==
    LET v == NumberValue(s)
    IN /\ s # <<>>
       /\ v.ok
       /\ IF v.scale >= 0
          THEN /\ v.mant * Pow10(v.scale) >= 1
               /\ v.mant * Pow10(v.scale) <= 65535
          ELSE /\ v.mant % Pow10(0 - v.scale) = 0
               /\ v.mant \div Pow10(0 - v.scale) >= 1
               /\ v.mant \div Pow10(0 - v.scale) <= 65535

\* a form whose text fields are not required
FormError_NoRequired(form) ==
    IF form.port = <<>> THEN "ValidationError"
    ELSE IF ~PortFieldValid(form.port) THEN "InvalidPort"
    ELSE "none"

\* What the browser's validation of the form refuses before onSubmit runs:
\* a required text field left empty, or the port field out of its range.
FormError(form) ==
    IF form.name = "" \/ form.ip_address = "" \/ form.port = <<>>
    THEN "ValidationError"
    ELSE IF ~PortFieldValid(form.port) THEN "InvalidPort"
    ELSE "none"

\* The form as handleSubmit works on it: the fields, what the browser's
\* validation said of them, and parseInt(port) as handleSubmit passes it to
\* the store.
Submit(form) ==
    [name |-> form.name, ip_address |-> form.ip_address, port |-> form.port,
     error |-> FormError(form), parsed |-> parseInt(form.port)]

\* the CHECK without its lower bound
PortCheck_NoLowerBound(port) == port # NaN /\ port <= 65535

\* devices.port: integer NOT NULL CHECK (port > 0 AND port <= 65535)
PortCheck(port) == port # NaN /\ port > 0 /\ port <= 65535

\* ------------------------------------------------------------ access policy
\* EXISTS (SELECT 1 FROM team_members WHERE team_id = t AND user_id = uid)
IsTeamMember(uid, t) ==
    \E m \in team_members : m.team_id = t /\ m.user_id = uid

\* EXISTS (SELECT 1 FROM teams WHERE id = t AND created_by = uid)
IsTeamCreator(uid, t) ==
    t \in DOMAIN teams /\ teams[t].created_by = uid

\* policy "Users can send commands to their devices"
SendOwnPolicy(uid, row) ==
    /\ row.sent_by = uid
    /\ row.device_id \in DOMAIN devices
    /\ devices[row.device_id].owner_id = uid

\* SendTeamPolicy without the join on team_members: any signed-in user may
\* send to a device that has a team.
SendTeamPolicy_NoMembership(uid, row) ==
    /\ row.sent_by = uid
    /\ row.device_id \in DOMAIN devices
    /\ devices[row.device_id].team_id # NULL

\* policy "Team members can send commands to team devices"
SendTeamPolicy(uid, row) ==
    /\ row.sent_by = uid
    /\ row.device_id \in DOMAIN devices
    /\ devices[row.device_id].team_id # NULL
    /\ IsTeamMember(uid, devices[row.device_id].team_id)

\* INSERT on commands: the permissive policies are OR-ed.
CommandInsertAllowed(uid, row) ==
    SendOwnPolicy(uid, row) \/ SendTeamPolicy(uid, row)

\* policy "Users can view their own devices"
ViewOwnPolicy(uid, d) == devices[d].owner_id = uid

\* ViewTeamPolicy without the sub-select on team_members: a device that has
\* a team is shown to every signed-in user.
ViewTeamPolicy_NoMembership(uid, d) == devices[d].team_id # NULL

\* policy "Team members can view team devices"
ViewTeamPolicy(uid, d) ==
    /\ devices[d].team_id # NULL
    /\ IsTeamMember(uid, devices[d].team_id)

\* SELECT on devices: the rows one of the two policies lets user uid see
DeviceSelectVisible(uid, d) ==
    d \in DOMAIN devices /\ (ViewOwnPolicy(uid, d) \/ ViewTeamPolicy(uid, d))

\* Dashboard.loadDevices: the devices listed for user uid
loadDevices(uid) == {d \in DOMAIN devices : DeviceSelectVisible(uid, d)}

\* SELECT on commands: policies "Users can view commands for their devices"
\* and "Team members can view commands for team devices"; each looks the
\* device up among the devices the user can see
CommandSelectVisible(uid, c) ==
    /\ c \in DOMAIN commands
    /\ \/ \E d \in loadDevices(uid) :
            d = commands[c].device_id /\ devices[d].owner_id = uid
       \/ \E d \in loadDevices(uid), m \in team_members :
            /\ m.team_id = devices[d].team_id
            /\ d = commands[c].device_id
            /\ m.user_id = uid

\* policy "Device owners can delete their devices"
DeviceDeleteVisible(uid, d) ==
    d \in DOMAIN devices /\ devices[d].owner_id = uid

\* the UPDATE policies without "Team admins can update team devices"
DeviceUpdateVisible_OwnerOnly(uid, d) ==
    d \in DOMAIN devices /\ devices[d].owner_id = uid

\* policies "Device owners can update their devices" and
\* "Team admins can update team devices": USING, on the stored row
DeviceUpdateVisible(uid, d) ==
    /\ d \in DOMAIN devices
    /\ \/ devices[d].owner_id = uid
       \/ /\ devices[d].team_id # NULL
          /\ IsTeamCreator(uid, devices[d].team_id)

\* the same two policies: WITH CHECK, on the row as updated
DeviceUpdateCheck(uid, row) ==
    \/ row.owner_id = uid
    \/ /\ row.team_id # NULL
       /\ IsTeamCreator(uid, row.team_id)

\* policy "Team admins can add members": WITH CHECK
MemberInsertAllowed(uid, row) == IsTeamCreator(uid, row.team_id)

\* the DELETE policies without "Team admins can remove members"
MemberDeleteVisible_SelfOnly(uid, m) == m.user_id = uid

\* DELETE policies that let every member of a team remove its members
MemberDeleteVisible_AnyMember(uid, m) ==
    IsTeamMember(uid, m.team_id) \/ m.user_id = uid

\* policies "Team admins can remove members" and
\* "Users can remove themselves from teams": USING
MemberDeleteVisible(uid, m) ==
    IsTeamCreator(uid, m.team_id) \/ m.user_id = uid

\* policy "Team creators can delete their teams": USING
TeamDeleteVisible(uid, t) == IsTeamCreator(uid, t)

\* ------------------------------------------------------------ rows
\* NewCommandRow with the status passed as 'delivered' instead of 'pending'.
NewCommandRow_Delivered(uid, d, k) ==
    [device_id |-> d, command_type |-> k, status |-> "delivered",
     sent_by |-> uid, sent_at |-> now, executed_at |-> NULL]

\* The row the dashboard inserts in sendCommand; sent_at, payload and
\* executed_at take the column defaults.
NewCommandRow(uid, d, k) ==
    [device_id |-> d, command_type |-> k, status |-> "pending",
     sent_by |-> uid, sent_at |-> now, executed_at |-> NULL]

\* a registration that presents the new device as already seen
NewDeviceRow_Online(uid, form) ==
    [name |-> form.name, ip_address |-> form.ip_address,
     port |-> form.parsed, owner_id |-> uid, team_id |-> NULL,
     status |-> "online", last_seen |-> now]

\* The row AddDeviceModal inserts; team_id, status and last_seen take the
\* column defaults.
NewDeviceRow(uid, form) ==
    [name |-> form.name, ip_address |-> form.ip_address,
     port |-> form.parsed, owner_id |-> uid, team_id |-> NULL,
     status |-> "unknown", last_seen |-> NULL]

\* a foreign key that leaves the commands of a deleted device in place
CascadeCommands_Keep(d) == commands

\* ON DELETE CASCADE of commands.device_id
CascadeCommands(d) ==
    Without(commands, {c \in DOMAIN commands : commands[c].device_id = d})

Init ==
    /\ teams = <<>>
    /\ team_members = {}
    /\ devices = <<>>
    /\ commands = <<>>
    /\ teamSeq = 0
    /\ deviceSeq = 0
    /\ commandSeq = 0
    /\ now = 1
    /\ cycle = [i \in Cycles |-> IdleCycle]
    /\ execCount = [c \in 1..MaxCommands |->
                      [fn \in {"zoomUnmute", "musicPlayerNext"} |-> 0]]
    /\ ui = Report("none", "none")

\* ------------------------------------------------------------ producer
\* sendCommand that also writes the target device's status when the insert
\* went through.
sendCommand_TouchesDevice(uid, d, k) ==
    /\ commandSeq < MaxCommands
    /\ IF uid = NoUser
       THEN UNCHANGED <<commands, commandSeq, ui, devices>>
       ELSE LET row == NewCommandRow(uid, d, k)
            IN IF CommandInsertAllowed(uid, row)
               THEN /\ commands' = With(commands, commandSeq + 1, row)
                    /\ commandSeq' = commandSeq + 1
                    /\ devices' = [devices EXCEPT ![d].status = "unknown",
                                                  ![d].last_seen = NULL]
                    /\ ui' = Report("sendCommand", "none")
               ELSE /\ UNCHANGED <<commands, commandSeq, devices>>
                    /\ ui' = Report("sendCommand", "NotAuthorized")
    /\ UNCHANGED <<teams, team_members, teamSeq, deviceSeq, now, cycle,
                   execCount>>

\* Dashboard.sendCommand(deviceId, commandType), signed in as uid
sendCommand(uid, d, k) ==
    /\ commandSeq < MaxCommands
    /\ IF uid = NoUser
       THEN UNCHANGED <<commands, commandSeq, ui>>
       ELSE LET row == NewCommandRow(uid, d, k)
            IN IF CommandInsertAllowed(uid, row)
               THEN /\ commands' = With(commands, commandSeq + 1, row)
                    /\ commandSeq' = commandSeq + 1
                    /\ ui' = Report("sendCommand", "none")
               ELSE /\ UNCHANGED <<commands, commandSeq>>
                    /\ ui' = Report("sendCommand", "NotAuthorized")
    /\ UNCHANGED <<teams, team_members, devices, teamSeq, deviceSeq, now,
                   cycle, execCount>>

\* Dashboard.deleteDevice(deviceId), after the confirm dialog
deleteDevice(uid, d) ==
    /\ IF DeviceDeleteVisible(uid, d)
       THEN /\ devices' = Without(devices, {d})
            /\ commands' = CascadeCommands(d)
       ELSE UNCHANGED <<devices, commands>>
    /\ ui' = Report("deleteDevice", "none")
    /\ UNCHANGED <<teams, team_members, teamSeq, deviceSeq, commandSeq, now,
                   cycle, execCount>>

\* AddDeviceModal: the form is submitted; handleSubmit runs when the
\* browser accepts the fields, and inserts the device
addDevice(uid, form) ==
    /\ deviceSeq < MaxDevices
    /\ uid # NoUser
    /\ IF form.error # "none"
       THEN /\ UNCHANGED <<devices, deviceSeq>>
            /\ ui' = Report("addDevice", form.error)
       ELSE LET row == NewDeviceRow(uid, form)
            IN IF PortCheck(row.port)
               THEN /\ devices' = With(devices, deviceSeq + 1, row)
                    /\ deviceSeq' = deviceSeq + 1
                    /\ ui' = Report("addDevice", "none")
               ELSE /\ UNCHANGED <<devices, deviceSeq>>
                    /\ ui' = Report("addDevice", "InvalidPort")
    /\ UNCHANGED <<teams, team_members, commands, teamSeq, commandSeq, now,
                   cycle, execCount>>

\* an edit that also resets the device's liveness fields
editDevice_ResetsStatus(uid, d, form) ==
    /\ IF form.error # "none"
       THEN /\ UNCHANGED devices
            /\ ui' = Report("editDevice", form.error)
       ELSE IF ~DeviceUpdateVisible(uid, d)
       THEN /\ UNCHANGED devices
            /\ ui' = Report("editDevice", "none")
       ELSE LET row == [devices[d] EXCEPT !.name = form.name,
                                          !.ip_address = form.ip_address,
                                          !.port = form.parsed,
                                          !.status = "unknown",
                                          !.last_seen = NULL]
            IN IF ~PortCheck(row.port)
               THEN /\ UNCHANGED devices
                    /\ ui' = Report("editDevice", "InvalidPort")
               ELSE IF ~DeviceUpdateCheck(uid, row)
               THEN /\ UNCHANGED devices
                    /\ ui' = Report("editDevice", "NotAuthorized")
               ELSE /\ devices' = [devices EXCEPT ![d] = row]
                    /\ ui' = Report("editDevice", "none")
    /\ UNCHANGED <<teams, team_members, commands, teamSeq, deviceSeq,
                   commandSeq, now, cycle, execCount>>

\* EditDeviceModal: the form is submitted for device d; handleSubmit runs
\* when the browser accepts the fields, and updates name, ip_address, port
editDevice(uid, d, form) ==
    /\ IF form.error # "none"
       THEN /\ UNCHANGED devices
            /\ ui' = Report("editDevice", form.error)
       ELSE IF ~DeviceUpdateVisible(uid, d)
       THEN /\ UNCHANGED devices
            /\ ui' = Report("editDevice", "none")
       ELSE LET row == [devices[d] EXCEPT !.name = form.name,
                                          !.ip_address = form.ip_address,
                                          !.port = form.parsed]
            IN IF ~PortCheck(row.port)
               THEN /\ UNCHANGED devices
                    /\ ui' = Report("editDevice", "InvalidPort")
               ELSE IF ~DeviceUpdateCheck(uid, row)
               THEN /\ UNCHANGED devices
                    /\ ui' = Report("editDevice", "NotAuthorized")
               ELSE /\ devices' = [devices EXCEPT ![d] = row]
                    /\ ui' = Report("editDevice", "none")
    /\ UNCHANGED <<teams, team_members, commands, teamSeq, deviceSeq,
                   commandSeq, now, cycle, execCount>>

\* UPDATE devices SET team_id = t WHERE id = d, as user uid ("Assign
\* Devices": edit the device, set its team)
setDeviceTeam(uid, d, t) ==
    /\ t = NULL \/ t \in DOMAIN teams
    /\ IF ~DeviceUpdateVisible(uid, d)
       THEN /\ UNCHANGED devices
            /\ ui' = Report("setDeviceTeam", "none")
       ELSE LET row == [devices[d] EXCEPT !.team_id = t]
            IN IF DeviceUpdateCheck(uid, row)
               THEN /\ devices' = [devices EXCEPT ![d] = row]
                    /\ ui' = Report("setDeviceTeam", "none")
               ELSE /\ UNCHANGED devices
                    /\ ui' = Report("setDeviceTeam", "NotAuthorized")
    /\ UNCHANGED <<teams, team_members, commands, teamSeq, deviceSeq,
                   commandSeq, now, cycle, execCount>>

\* CreateTeamModal.handleSubmit: the team row, then the creator's admin
\* membership, whose result the handler does not look at (memberOk: whether
\* that second insert went through)
createTeam(uid, memberOk) ==
    /\ teamSeq < MaxTeams
    /\ uid # NoUser
    /\ teams' = With(teams, teamSeq + 1, [created_by |-> uid])
    /\ teamSeq' = teamSeq + 1
    /\ team_members' =
         IF memberOk
         THEN team_members \cup
              {[team_id |-> teamSeq + 1, user_id |-> uid, role |-> "admin"]}
         ELSE team_members
    /\ ui' = Report("createTeam", "none")
    /\ UNCHANGED <<devices, commands, deviceSeq, commandSeq, now, cycle,
                   execCount>>

\* deleteTeam with a devices.team_id that is not ON DELETE SET NULL
deleteTeam_KeepsTeamId(uid, t) ==
    /\ t \in 1..teamSeq
    /\ IF TeamDeleteVisible(uid, t)
       THEN /\ teams' = Without(teams, {t})
            /\ team_members' = {m \in team_members : m.team_id # t}
            /\ UNCHANGED devices
       ELSE UNCHANGED <<teams, team_members, devices>>
    /\ ui' = Report("deleteTeam", "none")
    /\ UNCHANGED <<commands, teamSeq, deviceSeq, commandSeq, now, cycle,
                   execCount>>

\* Teams.deleteTeam: team_members cascade, devices.team_id is set to NULL
deleteTeam(uid, t) ==
    /\ t \in 1..teamSeq
    /\ IF TeamDeleteVisible(uid, t)
       THEN /\ teams' = Without(teams, {t})
            /\ team_members' = {m \in team_members : m.team_id # t}
            /\ devices' = [d \in DOMAIN devices |->
                             IF devices[d].team_id = t
                             THEN [devices[d] EXCEPT !.team_id = NULL]
                             ELSE devices[d]]
       ELSE UNCHANGED <<teams, team_members, devices>>
    /\ ui' = Report("deleteTeam", "none")
    /\ UNCHANGED <<commands, teamSeq, deviceSeq, commandSeq, now, cycle,
                   execCount>>

\* addMember on a table without UNIQUE(team_id, user_id)
addMember_NoUnique(uid, t, member) ==
    /\ t \in 1..teamSeq
    /\ LET row == [team_id |-> t, user_id |-> member, role |-> "member"]
       IN IF ~MemberInsertAllowed(uid, row)
          THEN /\ UNCHANGED team_members
               /\ ui' = Report("addMember", "NotAuthorized")
          ELSE /\ team_members' = team_members \cup {row}
               /\ ui' = Report("addMember", "none")
    /\ UNCHANGED <<teams, devices, commands, teamSeq, deviceSeq, commandSeq,
                   now, cycle, execCount>>

\* TeamDetail.addMember, once the e-mail lookup has found user member
addMember(uid, t, member) ==
    /\ t \in 1..teamSeq
    /\ LET row == [team_id |-> t, user_id |-> member, role |-> "member"]
       IN IF ~MemberInsertAllowed(uid, row)
          THEN /\ UNCHANGED team_members
               /\ ui' = Report("addMember", "NotAuthorized")
          ELSE IF IsTeamMember(member, t)
          THEN /\ UNCHANGED team_members
               /\ ui' = Report("addMember", "Conflict")
          ELSE /\ team_members' = team_members \cup {row}
               /\ ui' = Report("addMember", "none")
    /\ UNCHANGED <<teams, devices, commands, teamSeq, deviceSeq, commandSeq,
                   now, cycle, execCount>>

\* TeamDetail.removeMember
removeMember(uid, m) ==
    /\ m \in team_members
    /\ team_members' =
         IF MemberDeleteVisible(uid, m) THEN team_members \ {m}
         ELSE team_members
    /\ ui' = Report("removeMember", "none")
    /\ UNCHANGED <<teams, devices, commands, teamSeq, deviceSeq, commandSeq,
                   now, cycle, execCount>>

\* time passes in the store
Tick ==
    /\ now < MaxClock
    /\ now' = now + 1
    /\ UNCHANGED <<dbVars, cycle, execCount, ui>>

\* ------------------------------------------------------------ consumer
\* PendingOf without the status filter.
PendingOf_AnyStatus(d) ==
    {c \in DOMAIN commands : commands[c].device_id = d}

\* SELECT * FROM commands WHERE device_id = d AND status = 'pending'
PendingOf(d) ==
    {c \in DOMAIN commands :
        commands[c].device_id = d /\ commands[c].status = "pending"}

\* ... ORDER BY sent_at ASC: every arrangement of the selected rows in which
\* sent_at never decreases (rows with equal sent_at come in either order).
\* A fetched row is kept as the client holds it: its id and command_type.
FetchPending(d) ==
    LET S == PendingOf(d)
        n == Cardinality(S)
    IN {[i \in 1..n |-> [id |-> f[i],
                         command_type |-> commands[f[i]].command_type]] :
          f \in {g \in [1..n -> S] :
                   /\ \A i, j \in 1..n : i # j => g[i] # g[j]
                   /\ \A i, j \in 1..n :
                        i < j => commands[g[i]].sent_at <= commands[g[j]].sent_at}}

\* an update that writes the row back when it is no longer there (upsert)
UpdateCommand_Upsert(c, status, executed_at) ==
    IF c \in DOMAIN commands
    THEN [commands EXCEPT ![c].status = status,
                          ![c].executed_at = executed_at]
    ELSE With(commands, c,
              [device_id |-> DEVICE_ID, command_type |-> "unmute_zoom",
               status |-> status, sent_by |-> "u1", sent_at |-> now,
               executed_at |-> executed_at])

\* a client that clears a command from the table once it is executed
UpdateCommand_ClearsExecuted(c, status, executed_at) ==
    IF c \in DOMAIN commands
    THEN IF status = "executed" THEN Without(commands, {c})
         ELSE [commands EXCEPT ![c].status = status,
                               ![c].executed_at = executed_at]
    ELSE commands

\* UPDATE commands SET <fields> WHERE id = c (no row: nothing happens)
UpdateCommand(c, status, executed_at) ==
    IF c \in DOMAIN commands
    THEN [commands EXCEPT ![c].status = status,
                          ![c].executed_at = executed_at]
    ELSE commands

\* the executed_at an update leaves in place when it does not set the column
KeepExecutedAt(c) ==
    IF c \in DOMAIN commands THEN commands[c].executed_at ELSE NULL

\* after executeCommand returns: the for loop goes to the next fetched
\* command, or to the device status update
Advance(i) ==
    LET rest == Tail(cycle[i].queue)
    IN [cycle EXCEPT ![i] = [pc |-> IF rest = <<>> THEN "heartbeat"
                                    ELSE "deliver",
                             queue |-> rest]]

\* setInterval(pollCommands, 5000): the timer calls pollCommands, whether or
\* not an earlier call has returned; the new invocation is the first free one
pollCommands(i) ==
    /\ cycle[i].pc = "idle"
    /\ \A j \in 1..(i - 1) : cycle[j].pc # "idle"
    /\ cycle' = [cycle EXCEPT ![i].pc = "select"]
    /\ UNCHANGED <<dbVars, now, execCount, ui>>

\* pollCommands: the select returns the pending commands
selectPending(i) ==
    /\ cycle[i].pc = "select"
    /\ \E q \in FetchPending(DEVICE_ID) :
         cycle' = [cycle EXCEPT ![i] = [pc |-> IF q = <<>> THEN "heartbeat"
                                               ELSE "deliver",
                                        queue |-> q]]
    /\ UNCHANGED <<dbVars, now, execCount, ui>>

\* pollCommands: the select returns an error; it is thrown, caught and logged
selectError(i) ==
    /\ cycle[i].pc = "select"
    /\ cycle' = [cycle EXCEPT ![i] = IdleCycle]
    /\ UNCHANGED <<dbVars, now, execCount, ui>>

\* executeCommand: "Mark as delivered"
markDelivered(i) ==
    /\ cycle[i].pc = "deliver"
    /\ LET c == Head(cycle[i].queue).id
       IN commands' = UpdateCommand(c, "delivered", KeepExecutedAt(c))
    /\ cycle' = [cycle EXCEPT ![i].pc = "run"]
    /\ UNCHANGED <<teams, team_members, devices, teamSeq, deviceSeq,
                   commandSeq, now, execCount, ui>>

\* the function executeCommand calls for a command type
Executor(k) ==
    IF k = "unmute_zoom" THEN "zoomUnmute" ELSE "musicPlayerNext"

\* executeCommand: zoomUnmute() / musicPlayerNext() is called and either
\* returns (ok) or throws
runCommand(i, ok) ==
    /\ cycle[i].pc = "run"
    /\ LET command == Head(cycle[i].queue)
           fn == Executor(command.command_type)
       IN execCount' = [execCount EXCEPT ![command.id][fn] = @ + 1]
    /\ cycle' = [cycle EXCEPT ![i].pc = IF ok THEN "executed" ELSE "failed"]
    /\ UNCHANGED <<dbVars, now, ui>>

\* executeCommand: "Mark as executed"
markExecuted(i) ==
    /\ cycle[i].pc = "executed"
    /\ commands' = UpdateCommand(Head(cycle[i].queue).id, "executed", now)
    /\ cycle' = Advance(i)
    /\ UNCHANGED <<teams, team_members, devices, teamSeq, deviceSeq,
                   commandSeq, now, execCount, ui>>

\* executeCommand: "Mark as failed", in the catch block
markFailed(i) ==
    /\ cycle[i].pc = "failed"
    /\ LET c == Head(cycle[i].queue).id
       IN commands' = UpdateCommand(c, "failed", KeepExecutedAt(c))
    /\ cycle' = Advance(i)
    /\ UNCHANGED <<teams, team_members, devices, teamSeq, deviceSeq,
                   commandSeq, now, execCount, ui>>

\* a status update without its .eq('id', DEVICE_ID) filter
heartbeat_EveryDevice(i) ==
    /\ cycle[i].pc = "heartbeat"
    /\ devices' = [d \in DOMAIN devices |->
                     [devices[d] EXCEPT !.status = "online",
                                        !.last_seen = now]]
    /\ cycle' = [cycle EXCEPT ![i] = IdleCycle]
    /\ UNCHANGED <<teams, team_members, commands, teamSeq, deviceSeq,
                   commandSeq, now, execCount, ui>>

\* pollCommands: "Update device status"
heartbeat(i) ==
    /\ cycle[i].pc = "heartbeat"
    /\ devices' = IF DEVICE_ID \in DOMAIN devices
                  THEN [devices EXCEPT ![DEVICE_ID].status = "online",
                                       ![DEVICE_ID].last_seen = now]
                  ELSE devices
    /\ cycle' = [cycle EXCEPT ![i] = IdleCycle]
    /\ UNCHANGED <<teams, team_members, commands, teamSeq, deviceSeq,
                   commandSeq, now, execCount, ui>>

\* One of the client's updates (mark as delivered, executed or failed, or the
\* device status) returns an error: the client awaits the call without
\* looking at its result and goes on
updateError(i) ==
    /\ cycle[i].pc \in {"deliver", "executed", "failed", "heartbeat"}
    /\ cycle' = CASE cycle[i].pc = "deliver" ->
                      [cycle EXCEPT ![i].pc = "run"]
                  [] cycle[i].pc \in {"executed", "failed"} -> Advance(i)
                  [] OTHER -> [cycle EXCEPT ![i] = IdleCycle]
    /\ UNCHANGED <<dbVars, now, execCount, ui>>

\* ------------------------------------------------------------ display
\* "seen < 1 min ago": the age, in ticks of the store's clock (a tick is a
\* minute), from which a device counts as offline
StaleAfter == 1

\* Dashboard.getStatusIcon(device.status): the icon of a device card
getStatusIcon(status) ==
    CASE status = "online" -> "green Wifi"
      [] status = "offline" -> "red WifiOff"
      [] OTHER -> "gray WifiOff"

\* ------------------------------------------------------------ system
\* the form as the guide fills it for the first device
PrimeForm ==
    [name |-> "Prime", ip_address |-> "192.168.1.100",
     port |-> <<"3", "0", "0", "0">>]

\* ... and for the second device
VipForm ==
    [name |-> "VIP", ip_address |-> "192.168.1.101",
     port |-> <<"3", "0", "0", "0">>]

\* the ways the form is filled: the two above, the first port, a field left
\* empty, and ports the field or the table refuses
DeviceForms ==
    {PrimeForm, VipForm,
     [PrimeForm EXCEPT !.port = <<"1">>],
     [PrimeForm EXCEPT !.name = ""],
     [PrimeForm EXCEPT !.ip_address = ""],
     [PrimeForm EXCEPT !.port = <<>>],
     [PrimeForm EXCEPT !.port = <<"0">>],
     [PrimeForm EXCEPT !.port = <<"6", "5", "5", "3", "6">>],
     [PrimeForm EXCEPT !.port = <<"0", ".", "5", "e", "1">>],
     [PrimeForm EXCEPT !.port = <<"7", "0", "0", "0", "0", "e", "-", "1">>]}

\* the submissions of these fillings
PrimeSubmit == Submit(PrimeForm)
VipSubmit == Submit(VipForm)
Submissions == {Submit(form) : form \in DeviceForms}

Producer ==
    \/ \E uid \in Sessions, d \in 1..deviceSeq, k \in CommandTypes :
         sendCommand(uid, d, k)
    \/ \E uid \in Sessions, d \in 1..deviceSeq : deleteDevice(uid, d)
    \/ \E uid \in Sessions, form \in Submissions : addDevice(uid, form)
    \/ \E uid \in Users, d \in 1..deviceSeq, form \in Submissions :
         editDevice(uid, d, form)
    \/ \E uid \in Users, d \in 1..deviceSeq, t \in 0..teamSeq :
         setDeviceTeam(uid, d, t)
    \/ \E uid \in Sessions, memberOk \in BOOLEAN : createTeam(uid, memberOk)
    \/ \E uid \in Users, t \in 1..teamSeq : deleteTeam(uid, t)
    \/ \E uid \in Users, t \in 1..teamSeq, member \in Users :
         addMember(uid, t, member)
    \/ \E uid \in Users, m \in team_members : removeMember(uid, m)

Consumer ==
    \E i \in Cycles :
        \/ pollCommands(i)
        \/ selectPending(i)
        \/ selectError(i)
        \/ markDelivered(i)
        \/ \E ok \in BOOLEAN : runCommand(i, ok)
        \/ markExecuted(i)
        \/ markFailed(i)
        \/ heartbeat(i)

Next == Producer \/ Consumer \/ Tick

Spec == Init /\ [][Next]_vars

\* The command queue on its own: devices that are not shared with a team,
\* their owners, and the desktop client.
QueueNext ==
    \/ \E uid \in Sessions, d \in 1..deviceSeq, k \in CommandTypes :
         sendCommand(uid, d, k)
    \/ \E uid \in Sessions, d \in 1..deviceSeq : deleteDevice(uid, d)
    \/ \E uid \in Sessions : addDevice(uid, PrimeSubmit)
    \/ Consumer
    \/ Tick

SpecQueue == Init /\ [][QueueNext]_vars

\* Sharing on its own: teams, memberships and commands, with devices that
\* are registered as the guide fills the form and never edited; no desktop
\* client is running.
AccessNext ==
    \/ \E uid \in Sessions, d \in 1..deviceSeq, k \in CommandTypes :
         sendCommand(uid, d, k)
    \/ \E uid \in Sessions, d \in 1..deviceSeq : deleteDevice(uid, d)
    \/ \E uid \in Sessions : addDevice(uid, PrimeSubmit)
    \/ \E uid \in Users, d \in 1..deviceSeq, t \in 0..teamSeq :
         setDeviceTeam(uid, d, t)
    \/ \E uid \in Sessions, memberOk \in BOOLEAN : createTeam(uid, memberOk)
    \/ \E uid \in Users, t \in 1..teamSeq : deleteTeam(uid, t)
    \/ \E uid \in Users, t \in 1..teamSeq, member \in Users :
         addMember(uid, t, member)
    \/ \E uid \in Users, m \in team_members : removeMember(uid, m)
    \/ Tick

SpecAccess == Init /\ [][AccessNext]_vars

\* invocation i is about to call an executor for a command that has been
\* run fewer than MaxCalls times
CallsLeft(i) ==
    /\ cycle[i].pc = "run"
    /\ LET c == Head(cycle[i].queue).id
       IN execCount[c]["zoomUnmute"] + execCount[c]["musicPlayerNext"]
            < MaxCalls

\* The command queue with a store that can refuse a call: one invocation of
\* the desktop client at a time, whose updates either go through or return
\* an error.
FaultsNext ==
    \/ \E uid \in Users : addDevice(uid, PrimeSubmit)
    \/ \E uid \in Users, d \in 1..deviceSeq, k \in CommandTypes :
         sendCommand(uid, d, k)
    \/ pollCommands(1)
    \/ selectPending(1)
    \/ selectError(1)
    \/ markDelivered(1)
    \/ \E ok \in BOOLEAN : CallsLeft(1) /\ runCommand(1, ok)
    \/ markExecuted(1)
    \/ markFailed(1)
    \/ heartbeat(1)
    \/ updateError(1)

SpecFaults == Init /\ [][FaultsNext]_vars

\* The device registry on its own: devices that are not shared with a team,
\* registered and edited with every filling of the form, next to the command
\* queue and the desktop client.
DevicesNext ==
    \/ \E uid \in Users, form \in Submissions : addDevice(uid, form)
    \/ \E uid \in Users, d \in 1..deviceSeq, form \in Submissions :
         editDevice(uid, d, form)
    \/ \E uid \in Users, d \in 1..deviceSeq, k \in CommandTypes :
         sendCommand(uid, d, k)
    \/ pollCommands(1)
    \/ selectPending(1)
    \/ selectError(1)
    \/ markDelivered(1)
    \/ \E ok \in BOOLEAN : runCommand(1, ok)
    \/ markExecuted(1)
    \/ markFailed(1)
    \/ heartbeat(1)

SpecDevices == Init /\ [][DevicesNext]_vars

\* Shared devices on their own: teams, memberships, and devices that are
\* registered, assigned to a team, edited and deleted; no command is sent.
ShareNext ==
    \/ \E uid \in Users : addDevice(uid, PrimeSubmit)
    \/ \E uid \in Users, d \in 1..deviceSeq, form \in {PrimeSubmit, VipSubmit} :
         editDevice(uid, d, form)
    \/ \E uid \in Users, d \in 1..deviceSeq : deleteDevice(uid, d)
    \/ \E uid \in Users, d \in 1..deviceSeq, t \in 0..teamSeq :
         setDeviceTeam(uid, d, t)
    \/ \E uid \in Users, memberOk \in BOOLEAN : createTeam(uid, memberOk)
    \/ \E uid \in Users, t \in 1..teamSeq : deleteTeam(uid, t)
    \/ \E uid \in Users, t \in 1..teamSeq, member \in Users :
         addMember(uid, t, member)
    \/ \E uid \in Users, m \in team_members : removeMember(uid, m)

SpecShare == Init /\ [][ShareNext]_vars

TypeOK ==
    /\ DOMAIN teams \subseteq 1..teamSeq
    /\ DOMAIN devices \subseteq 1..deviceSeq
    /\ DOMAIN commands \subseteq 1..commandSeq
    /\ \A c \in DOMAIN commands :
         /\ commands[c].status \in CommandStatuses
         /\ commands[c].command_type \in CommandTypes
    /\ \A d \in DOMAIN devices : devices[d].status \in DeviceStatuses
    /\ \A m \in team_members : m.role \in Roles

\* ------------------------------------------------------------ properties
\* the number of times an executor was called for command c
Calls(c) == execCount[c]["zoomUnmute"] + execCount[c]["musicPlayerNext"]

\* the ids in a fetched sequence
QueueIds(q) == {q[n].id : n \in DOMAIN q}

\* C1: every command is executed at most once: the executor (zoomUnmute /
\* musicPlayerNext) is called at most one time per command id.
C1_ExecutedAtMostOnce == \A c \in 1..MaxCommands : Calls(c) <= 1

\* the lifecycle edges of section 4.1
LifecycleEdges ==
    {<<"pending", "delivered">>, <<"delivered", "executed">>,
     <<"pending", "failed">>, <<"delivered", "failed">>}

\* C2: every change of a command's status follows one of the edges
\* pending->delivered, delivered->executed, pending->failed,
\* delivered->failed.
C2_OnlyLifecycleEdges ==
    [][\A c \in (DOMAIN commands) \cap (DOMAIN commands') :
          commands'[c].status # commands[c].status
            => <<commands[c].status, commands'[c].status>> \in LifecycleEdges]_vars

\* C3: a command whose status is executed or failed keeps that status in
\* every later state.
C3_TerminalIsFinal ==
    [][\A c \in (DOMAIN commands) \cap (DOMAIN commands') :
          commands[c].status \in {"executed", "failed"}
            => commands'[c].status = commands[c].status]_vars

\* C4: in every reachable state, for every command, executed_at is non-null
\* if and only if status = executed.
C4_ExecutedAtIffExecuted ==
    \A c \in DOMAIN commands :
        (commands[c].executed_at # NULL) <=> (commands[c].status = "executed")

\* C5: a command row has status pending and a null executed_at at the moment
\* it is created.
C5_CreatedPending ==
    [][\A c \in (DOMAIN commands') \ (DOMAIN commands) :
          /\ commands'[c].status = "pending"
          /\ commands'[c].executed_at = NULL]_vars

\* C5 witness: a command was created while another one had already been
\* executed by the desktop client.
C5_Witness ==
    \E c, e \in DOMAIN commands :
        /\ commands[c].status = "pending"
        /\ commands[c].executed_at = NULL
        /\ commands[e].status = "executed"
        /\ e < c

\* the acting user owns device d or has a membership row in the team the
\* device belongs to
MayUse(uid, d) ==
    /\ d \in DOMAIN devices
    /\ \/ devices[d].owner_id = uid
       \/ \E m \in team_members :
            /\ m.user_id = uid
            /\ devices[d].team_id # NULL
            /\ m.team_id = devices[d].team_id

\* C6: issuing a command adds a row only if the acting user owns the target
\* device or is a member of its team, and the row's sent_by is the acting
\* user; otherwise the issue fails with NotAuthorized and the command rows
\* are unchanged.
C6_SendRequiresAccess ==
    [][\A uid \in Users, d \in 1..deviceSeq, k \in CommandTypes :
          sendCommand(uid, d, k) =>
            /\ ~MayUse(uid, d) =>
                 /\ ui' = [op |-> "sendCommand", error |-> "NotAuthorized"]
                 /\ commands' = commands
            /\ commands' # commands =>
                 /\ MayUse(uid, d)
                 /\ \A c \in (DOMAIN commands') \ (DOMAIN commands) :
                      commands'[c].sent_by = uid]_vars

\* C6 witness: a team member who is not the owner has issued a command to
\* the team's device, and the last issue, by somebody without access, was
\* refused.
C6_Witness ==
    /\ ui = [op |-> "sendCommand", error |-> "NotAuthorized"]
    /\ \E c \in DOMAIN commands :
         /\ commands[c].device_id \in DOMAIN devices
         /\ commands[c].sent_by # devices[commands[c].device_id].owner_id
    /\ \E uid \in Users, d \in DOMAIN devices : ~MayUse(uid, d)

\* C7: a successful issue adds exactly one command row, addressed to the
\* given device with the given kind, and leaves every device row and every
\* command row that existed before unchanged.
C7_SendAddsOneRow ==
    [][\A uid \in Users, d \in 1..deviceSeq, k \in CommandTypes :
          (sendCommand(uid, d, k) /\ commands' # commands) =>
            /\ Cardinality((DOMAIN commands') \ (DOMAIN commands)) = 1
            /\ \A c \in (DOMAIN commands') \ (DOMAIN commands) :
                 /\ commands'[c].device_id = d
                 /\ commands'[c].command_type = k
            /\ \A c \in DOMAIN commands :
                 c \in DOMAIN commands' /\ commands'[c] = commands[c]
            /\ devices' = devices
            /\ teams' = teams
            /\ team_members' = team_members]_vars

\* C7 witness: a command was issued to a device that the desktop client has
\* already marked online, next to an older command that is already executed.
C7_Witness ==
    \E c, e \in DOMAIN commands :
        /\ e < c
        /\ commands[e].status = "executed"
        /\ commands[c].status = "pending"
        /\ commands[c].device_id \in DOMAIN devices
        /\ devices[commands[c].device_id].status = "online"
        /\ devices[commands[c].device_id].last_seen # NULL
        /\ commands[c].sent_at > devices[commands[c].device_id].last_seen

\* C8: a fetch returns exactly the commands of the polled device that are
\* pending at the time of the fetch, each once, oldest sent_at first.
C8_FetchPendingSorted ==
    [][\A i \in Cycles :
          (cycle[i].pc = "select" /\ cycle'[i].pc \in {"deliver", "heartbeat"}) =>
            LET q == cycle'[i].queue
            IN /\ QueueIds(q) =
                    {c \in DOMAIN commands :
                       /\ commands[c].device_id = DEVICE_ID
                       /\ commands[c].status = "pending"}
               /\ Len(q) = Cardinality(QueueIds(q))
               /\ \A m, n \in DOMAIN q :
                    m < n => commands[q[m].id].sent_at <= commands[q[n].id].sent_at]_vars

\* C8 witness: a fetch has returned two commands issued at different times,
\* the older one first, and has started on the first.
C8_Witness ==
    \E i \in Cycles :
        /\ cycle[i].pc = "deliver"
        /\ Len(cycle[i].queue) = 2
        /\ \A n \in 1..2 : cycle[i].queue[n].id \in DOMAIN commands
        /\ commands[cycle[i].queue[1].id].sent_at
             < commands[cycle[i].queue[2].id].sent_at

\* C9: for each device, commands are executed in issuance order: when the
\* execution of a command starts for the first time, no command issued later
\* to the same device has been started yet.
C9_ExecutedInIssueOrder ==
    [][\A i \in Cycles :
          (cycle[i].pc = "run" /\ cycle'[i].pc # "run") =>
            LET a == Head(cycle[i].queue).id
            IN (a \in DOMAIN commands /\ Calls(a) = 0) =>
                 \A b \in DOMAIN commands :
                    (/\ commands[b].device_id = commands[a].device_id
                     /\ commands[a].sent_at < commands[b].sent_at)
                      => Calls(b) = 0]_vars

\* C10: deleteDevice by a user who is not the device's owner fails with
\* NotAuthorized, and the device row and the commands stay unchanged.
C10_DeleteByNonOwnerFails ==
    [][\A uid \in Users, d \in DOMAIN devices :
          (deleteDevice(uid, d) /\ devices[d].owner_id # uid) =>
            /\ ui'.error = "NotAuthorized"
            /\ devices' = devices
            /\ commands' = commands]_vars

\* C11: every command references an existing device; when the owner deletes
\* a device, the device and every command referencing it are gone after that
\* same step, and from then on a fetch of the pending commands of a deleted
\* device returns none.
C11_CommandsReferenceDevices ==
    /\ [](\A c \in DOMAIN commands : commands[c].device_id \in DOMAIN devices)
    /\ [][\A uid \in Users, d \in DOMAIN devices :
            (deleteDevice(uid, d) /\ devices[d].owner_id = uid) =>
              /\ d \notin DOMAIN devices'
              /\ \A c \in DOMAIN commands' : commands'[c].device_id # d
              /\ \A c \in DOMAIN commands :
                   commands[c].device_id # d =>
                     c \in DOMAIN commands' /\ commands'[c] = commands[c]]_vars
    /\ [](\A d \in 1..deviceSeq :
            d \notin DOMAIN devices => FetchPending(d) = {<<>>})
    /\ [][\A i \in Cycles :
            (/\ cycle[i].pc = "select"
             /\ cycle'[i].pc \in {"deliver", "heartbeat"}
             /\ DEVICE_ID \notin DOMAIN devices) =>
              cycle'[i].queue = <<>>]_vars

\* C11 witness: the polled device had commands and was deleted by its owner
\* (its command ids are gone), a fetch made after that has returned nothing,
\* and another device still has its command.
C11_Witness ==
    /\ deviceSeq = 2
    /\ DEVICE_ID \notin DOMAIN devices
    /\ commandSeq = 2
    /\ DOMAIN commands = {2}
    /\ \E i \in Cycles : cycle[i].pc = "heartbeat" /\ cycle[i].queue = <<>>

\* a submission with its name and address filled in, whose port text is sent
\* to the store as a number outside 1..65535
PortOutOfRange(form) ==
    /\ form.name # "" /\ form.ip_address # "" /\ form.port # <<>>
    /\ form.parsed < 1 \/ form.parsed > 65535

\* the fillings of the form with such a port
OutOfRangeForms == {form \in Submissions : PortOutOfRange(form)}

C13_RegisterCreatesDevice ==
    [][\A uid \in Users, form \in Submissions :
          (addDevice(uid, form) /\ ui'.error = "none") =>
            /\ Cardinality((DOMAIN devices') \ (DOMAIN devices)) = 1
            /\ \A d \in (DOMAIN devices') \ (DOMAIN devices) :
                 /\ devices'[d].owner_id = uid
                 /\ devices'[d].status = "unknown"
                 /\ devices'[d].team_id = NULL
                 /\ devices'[d].last_seen = NULL
                 /\ devices'[d].name = form.name
                 /\ devices'[d].ip_address = form.ip_address
            /\ \A d \in DOMAIN devices :
                 d \in DOMAIN devices' /\ devices'[d] = devices[d]
            /\ commands' = commands]_vars

\* C13 witness: a second device was registered, by another user, next to a
\* device that the desktop client has marked online and that has a command.
C13_Witness ==
    /\ DOMAIN devices = {1, 2}
    /\ devices[1].status = "online"
    /\ devices[2].status = "unknown"
    /\ devices[2].last_seen = NULL
    /\ devices[2].owner_id # devices[1].owner_id
    /\ \E c \in DOMAIN commands : commands[c].device_id = 1

\* C14: a registration with an empty name or an empty host fails with
\* ValidationError and creates no device row.
C14_EmptyFieldRefused ==
    [][\A uid \in Users, form \in Submissions :
          (addDevice(uid, form) /\ (form.name = "" \/ form.ip_address = "")) =>
            /\ ui' = [op |-> "addDevice", error |-> "ValidationError"]
            /\ devices' = devices
            /\ deviceSeq' = deviceSeq]_vars

\* C14 witness: with one device registered, a registration with an empty
\* field was refused.
C14_Witness ==
    /\ ui = [op |-> "addDevice", error |-> "ValidationError"]
    /\ Cardinality(DOMAIN devices) = 1

\* C15: the heartbeat sets the polled device's status to online and its
\* last_seen to the current time, and changes no other field, no other
\* device and no command; an invocation of pollCommands ends either with the
\* heartbeat, after a fetch that succeeded, or right after a fetch that
\* failed, and then without any write to the devices.
C15_Heartbeat ==
    /\ [][\A i \in Cycles :
            (cycle[i].pc = "heartbeat" /\ cycle'[i].pc # "heartbeat") =>
              /\ cycle'[i].pc = "idle"
              /\ DOMAIN devices' = DOMAIN devices
              /\ DEVICE_ID \in DOMAIN devices =>
                   devices'[DEVICE_ID] =
                     [devices[DEVICE_ID] EXCEPT !.status = "online",
                                                !.last_seen = now]
              /\ \A d \in (DOMAIN devices) \ {DEVICE_ID} :
                   devices'[d] = devices[d]
              /\ commands' = commands]_vars
    /\ [][\A i \in Cycles :
            (cycle[i].pc # "idle" /\ cycle'[i].pc = "idle") =>
              \/ cycle[i].pc = "heartbeat"
              \/ cycle[i].pc = "select" /\ devices' = devices]_vars
    /\ [][\A i \in Cycles :
            (cycle[i].pc = "select" /\ cycle'[i].pc # "select") =>
              cycle'[i].pc \in {"idle", "deliver", "heartbeat"}]_vars

\* C15 witness: the polled device is online as of the current time, after
\* the clock has advanced and a command was executed; the other device is
\* still unknown, and no invocation is running.
C15_Witness ==
    /\ DOMAIN devices = {1, 2}
    /\ devices[DEVICE_ID].status = "online"
    /\ devices[DEVICE_ID].last_seen = now
    /\ now > 1
    /\ devices[2].status = "unknown"
    /\ \E c \in DOMAIN commands : commands[c].status = "executed"
    /\ \A i \in Cycles : cycle[i].pc = "idle"

\* a step of the dashboard: every step of the desktop client moves one of
\* its invocations, and no step of the dashboard does
ProducerStep == cycle' = cycle

NoMembershipAfter(uid, t) ==
    \A m \in team_members' : ~(m.user_id = uid /\ m.team_id = t)

MayUpdate(uid, d) ==
    \/ devices[d].owner_id = uid
    \/ \E t \in DOMAIN teams :
         devices[d].team_id = t /\ teams[t].created_by = uid

SharedWith(b, d, t) ==
    /\ d \in DOMAIN devices
    /\ t \in DOMAIN teams
    /\ devices[d].team_id = t
    /\ devices[d].owner_id # b
    /\ teams[t].created_by # b
    /\ [team_id |-> t, user_id |-> b, role |-> "member"] \in team_members

C20_FailuresReported ==
    [][/\ \A uid \in Users, d \in DOMAIN devices, k \in CommandTypes :
            (sendCommand(uid, d, k) /\ commands' = commands) =>
              ui'.error # "none"
       /\ \A uid \in Users, t \in DOMAIN teams, member \in Users :
            (addMember(uid, t, member) /\ team_members' = team_members) =>
              ui'.error # "none"
       /\ \A uid \in Users :
            createTeam(uid, FALSE) => ui'.error # "none"]_vars

\* C21: no step removes a command whose device is still there after the
\* step: the command rows of an existing device only grow, and a row keeps
\* its device, kind, sender and issue time.
C21_CommandsKept ==
    [][\A c \in DOMAIN commands :
          commands[c].device_id \in DOMAIN devices' =>
            /\ c \in DOMAIN commands'
            /\ commands'[c].device_id = commands[c].device_id
            /\ commands'[c].command_type = commands[c].command_type
            /\ commands'[c].sent_by = commands[c].sent_by
            /\ commands'[c].sent_at = commands[c].sent_at]_vars

\* C21 witness: the commands of one device were removed with it, while an
\* executed command and its device are both still there.
C21_Witness ==
    /\ commandSeq = 2
    /\ deviceSeq = 2
    /\ Cardinality(DOMAIN devices) = 1
    /\ \E c \in DOMAIN commands :
         /\ DOMAIN commands = {c}
         /\ commands[c].status = "executed"
         /\ commands[c].device_id \in DOMAIN devices

\* C22: there is at most one membership row per team and user; adding a
\* user who already has a row in the team, the creator's admin row included,
\* fails and leaves the memberships unchanged.
C22_OneMembershipPerPair ==
    /\ [](\A m, n \in team_members :
            (m.team_id = n.team_id /\ m.user_id = n.user_id) => m = n)
    /\ [][\A uid \in Users, t \in DOMAIN teams, member \in Users :
            (/\ \E m \in team_members :
                  m.team_id = t /\ m.user_id = member
             /\ addMember(uid, t, member)) =>
              /\ ui'.op = "addMember"
              /\ ui'.error # "none"
              /\ team_members' = team_members]_vars

\* C22 witness: a team has its creator's admin row and a member's row, and
\* the last attempt to add somebody a second time was refused as a duplicate.
C22_Witness ==
    /\ ui = [op |-> "addMember", error |-> "Conflict"]
    /\ \E t \in DOMAIN teams :
         /\ [team_id |-> t, user_id |-> teams[t].created_by,
              role |-> "admin"] \in team_members
         /\ \E m \in team_members :
              m.team_id = t /\ m.role = "member"

C24_StatusShownByAge ==
    \A d \in DOMAIN devices :
        LET icon == getStatusIcon(devices[d].status)
            seen == devices[d].last_seen
        IN /\ icon = "green Wifi" =>
                seen # NULL /\ now - seen < StaleAfter
           /\ (seen # NULL /\ now - seen > StaleAfter) =>
                icon = "red WifiOff"
           /\ seen = NULL => icon = "gray WifiOff"

\* C25: when the client calls the executor for a command, the command's
\* stored status is not pending any more; and no command's status goes from
\* pending to executed (a status never returns to pending, so a command that
\* becomes executed otherwise has been delivered, or has failed, before).
C25_DeliveredBeforeExecution ==
    /\ [][\A i \in Cycles :
            (cycle[i].pc = "run" /\ cycle'[i].pc # "run") =>
              LET c == Head(cycle[i].queue).id
              IN c \in DOMAIN commands => commands[c].status # "pending"]_vars
    /\ [][\A c \in (DOMAIN commands) \cap (DOMAIN commands') :
            commands'[c].status = "executed" =>
              commands[c].status # "pending"]_vars

\* C26: the invocations of pollCommands of one client do not overlap: at
\* most one of them is between its start and its end (fetch, execution of
\* the fetched commands, heartbeat) at any time, and a new one starts only
\* when none is running.
C26_CyclesDoNotOverlap ==
    /\ [](Cardinality({i \in Cycles : cycle[i].pc # "idle"}) <= 1)
    /\ [][\A i \in Cycles :
            (cycle[i].pc = "idle" /\ cycle'[i].pc # "idle") =>
              \A j \in Cycles : cycle[j].pc = "idle"]_vars

\* the next step of invocation i of the client
ClientStep(i) ==
    \/ selectPending(i)
    \/ selectError(i)
    \/ markDelivered(i)
    \/ \E ok \in BOOLEAN : runCommand(i, ok)
    \/ markExecuted(i)
    \/ markFailed(i)
    \/ heartbeat(i)

\* the polled device was registered and has been deleted
PolledDeviceDeleted == deviceSeq >= DEVICE_ID /\ DEVICE_ID \notin DOMAIN devices

\* C27: once the polled device is deleted, no step of the client changes a
\* device row or a command row (its status updates and its heartbeat match
\* nothing and recreate nothing); an invocation that was under way can always
\* take its next step, it ends, and another one can start.
C27_ClientToleratesDeletion ==
    /\ [][(PolledDeviceDeleted /\ cycle' # cycle) =>
            devices' = devices /\ commands' = commands]_vars
    /\ [](\A i \in Cycles :
            (PolledDeviceDeleted /\ cycle[i].pc # "idle") =>
              ENABLED ClientStep(i))
    /\ [](\A i \in Cycles :
            (/\ PolledDeviceDeleted
             /\ cycle[i].pc = "idle"
             /\ \A j \in 1..(i - 1) : cycle[j].pc # "idle") =>
              ENABLED pollCommands(i))

\* C27 witness: the device is gone together with the command an invocation
\* has executed and is about to report, and another invocation has fetched
\* nothing and is about to send its heartbeat.
C27_Witness ==
    /\ PolledDeviceDeleted
    /\ \E i, j \in Cycles :
         /\ cycle[i].pc = "executed"
         /\ Head(cycle[i].queue).id \notin DOMAIN commands
         /\ cycle[j].pc = "heartbeat"
         /\ cycle[j].queue = <<>>

\* C28: every command of the polled device ends executed or failed, as its
\* execution went. Stated on finite runs: when no invocation of the client
\* is under way, no command of the device is left delivered (only pending
\* commands are fetched again); the report after an execution that returned
\* writes executed, the one after an execution that threw writes failed; and
\* a command that is executed is not turned into a failed one, nor a failed
\* one into an executed one.
C28_EveryCommandEnds ==
    /\ []((\A i \in Cycles : cycle[i].pc = "idle") =>
            \A c \in DOMAIN commands :
               commands[c].device_id = DEVICE_ID =>
                 commands[c].status # "delivered")
    /\ [][\A i \in Cycles :
            (cycle[i].pc \in {"executed", "failed"} /\ cycle'[i] # cycle[i]) =>
              LET c == Head(cycle[i].queue).id
              IN c \in DOMAIN commands' =>
                   commands'[c].status = cycle[i].pc]_vars
    /\ [][\A c \in (DOMAIN commands) \cap (DOMAIN commands') :
            /\ commands[c].status = "executed" =>
                 commands'[c].status # "failed"
            /\ commands[c].status = "failed" =>
                 commands'[c].status # "executed"]_vars

\* C29: a device's team is unset or an existing team, and so is the team of
\* every membership row; a deletion of a team that goes through removes the
\* membership rows of that team and no other, keeps every device, unsets the
\* team of the devices that belonged to it and changes nothing else of any
\* device, and changes no command.
C29_DeleteTeamKeepsDevices ==
    /\ [](\A d \in DOMAIN devices :
            devices[d].team_id = NULL \/ devices[d].team_id \in DOMAIN teams)
    /\ [](\A m \in team_members : m.team_id \in DOMAIN teams)
    /\ [][\A uid \in Users, t \in DOMAIN teams :
            (deleteTeam(uid, t) /\ t \notin DOMAIN teams') =>
              /\ team_members' = {m \in team_members : m.team_id # t}
              /\ DOMAIN devices' = DOMAIN devices
              /\ \A d \in DOMAIN devices :
                   devices'[d] =
                     IF devices[d].team_id = t
                     THEN [devices[d] EXCEPT !.team_id = NULL]
                     ELSE devices[d]
              /\ commands' = commands]_vars

\* C29 witness: the one team has been deleted and no membership row is
\* left; a device that a user other than its owner had issued a command to,
\* as a member of that team, is still there with its command, without a team.
C29_Witness ==
    /\ teamSeq = 1
    /\ teams = <<>>
    /\ team_members = {}
    /\ ui = [op |-> "none", error |-> "none"]
    /\ \E c \in DOMAIN commands :
         /\ commands[c].device_id \in DOMAIN devices
         /\ devices[commands[c].device_id].team_id = NULL
         /\ devices[commands[c].device_id].owner_id # commands[c].sent_by

\* C30: whenever the creation of a team shows no error, the new team row
\* exists with created_by = the acting user, and so does the acting user's
\* membership row in it, with role admin.
C30_CreatedTeamHasAdmin ==
    [][\A uid \in Users, memberOk \in BOOLEAN :
          (createTeam(uid, memberOk) /\ ui'.error = "none") =>
            \E t \in (DOMAIN teams') \ (DOMAIN teams) :
               /\ teams'[t].created_by = uid
               /\ [team_id |-> t, user_id |-> uid, role |-> "admin"]
                    \in team_members']_vars

====
